---- MODULE Spec2Model ----
(***************************************************************************)
(* A model of the FINCLUSION budget tracker's client-side services:        *)
(*   - the mock data services of src/src/services/api.ts (categoryAPI,     *)
(*     transactionAPI) working on browser local storage;                   *)
(*   - the mock user store of src/src/services/mockAuth.ts;                *)
(*   - the AuthService of src/src/services/api.ts (login, register,        *)
(*     logout, getCurrentUser, isLoggedIn, resendConfirmation, the auth    *)
(*     state listener and handleAuthenticatedUser);                        *)
(*   - the Signup form handler of src/src/pages/Signup.tsx.                *)
(*                                                                         *)
(* Local storage is a function from key to a sequence that is empty when   *)
(* the key is absent (getItem returns null) and holds the one stored value *)
(* otherwise.  Stored values are the parsed JSON values: JSON.stringify    *)
(* drops fields whose value is undefined and reading a dropped field gives *)
(* undefined again, so a field holding UNDEF reads the same before and     *)
(* after the round trip.                                                   *)
(*                                                                         *)
(* The remote backend (Supabase) is the environment: every call to it      *)
(* draws its outcome from a small set (a response, an error result, or a   *)
(* thrown exception).                                                      *)
(***************************************************************************)
EXTENDS Integers, Sequences, FiniteSets, TLC

VARIABLES
    localStorage,    \* browser localStorage: key -> <<>> or <<value>>
    sessionStorage,  \* browser sessionStorage: key -> <<>> or <<value>>
    users,           \* MockUserStorage.users: email -> <<>> or <<user record>>
    clock,           \* the reading of Date.now()
    result,          \* what the last finished operation returned and which calls it made
    pending,         \* the handleAuthenticatedUser invocations that are scheduled
    reg,             \* the register call in flight (its retry loop, with what its
                     \* earlier attempts waited for and were answered), or idle
    page,            \* the state of the component (Signup, Login or the expense-history
                     \* popup) that is mounted
    loggedOut        \* TRUE from a logout's return to the next login or register call

vars == <<localStorage, sessionStorage, users, clock, result, pending, reg, page,
          loggedOut>>

\* what the data services leave alone
sessionVars == <<sessionStorage, users, pending, reg, page, loggedOut>>

----------------------------------------------------------------------------
(* Values *)

\* JavaScript undefined / null for string-valued fields
UNDEF == "<undefined>"

\* api.ts line 7
USE_MOCK_AUTH == TRUE

\* the reading of Date.now() in the first state; the default category ids
\* cat-1 .. cat-8 are far below any real clock reading
T0 == 1000

\* how far the clock advances
MaxClock == 1

\* how many transactions / categories the mock lists are allowed to grow to
MaxTrans == 2
MaxCats == 1

\* every key of local storage that the modelled code reads, writes or removes
AuthKeys == {"token", "userData", "userProfile", "userToken", "refreshToken",
             "userEmail", "userId", "isAuthenticated"}
DataKeys == {"transactions", "categories"}
CacheKeys == {"customCategories", "reminders", "monthlyBudget", "cartItems",
              "paidRemindersHistory"}
OtherKeys == {"currentUser", "profileData", "sb-hyakzfaxrfsistgwlzln-auth-token"}
Keys == AuthKeys \cup DataKeys \cup CacheKeys \cup OtherKeys

SessionKeys == {"pendingUserRegistration", "pendingUserName",
                "newUserRegistration", "registeredName"}

\* localStorage.getItem / setItem / removeItem
Has(ls, k) == ls[k] # <<>>
SetItem(ls, k, v) == [ls EXCEPT ![k] = <<v>>]
RemoveItem(ls, k) == [ls EXCEPT ![k] = <<>>]

RECURSIVE RemoveAll(_, _)
RemoveAll(ls, ks) ==
    IF ks = <<>> THEN ls ELSE RemoveAll(RemoveItem(ls, Head(ks)), Tail(ks))

\* a stored list, or [] when the key is absent (storedX ? JSON.parse(storedX) : [])
ListOf(ls, k) == IF Has(ls, k) THEN ls[k][1] ELSE <<>>

Range(s) == {s[i] : i \in 1..Len(s)}

----------------------------------------------------------------------------
(* categoryAPI and transactionAPI, mock mode *)

\* A category is [_id, name, type, budget]; a transaction is
\* [_id, type, amount, category, date], category being the category NAME.
\* Ids are <<prefix, number>> for `cat-${n}` / `trans-${n}`.
NoBudget == 0 - 1

\* String.prototype.toLowerCase on the category names in use
ToLowerCase(s) ==
    CASE s = "Food" -> "food"
      [] s = "Income" -> "income"
      [] s = "Rent" -> "rent"
      [] OTHER -> s

defaultCategories ==
    << [_id |-> <<"cat", 1>>, name |-> "Food",      type |-> "expense", budget |-> NoBudget],
       [_id |-> <<"cat", 2>>, name |-> "Shopping",  type |-> "expense", budget |-> NoBudget],
       [_id |-> <<"cat", 3>>, name |-> "Fun",       type |-> "expense", budget |-> NoBudget],
       [_id |-> <<"cat", 4>>, name |-> "Transport", type |-> "expense", budget |-> NoBudget],
       [_id |-> <<"cat", 5>>, name |-> "Utilities", type |-> "expense", budget |-> NoBudget],
       [_id |-> <<"cat", 6>>, name |-> "Medical",   type |-> "expense", budget |-> NoBudget],
       [_id |-> <<"cat", 7>>, name |-> "Education", type |-> "expense", budget |-> NoBudget],
       [_id |-> <<"cat", 8>>, name |-> "Income",    type |-> "income",  budget |-> NoBudget] >>

\* the result record every operation leaves behind
NoUser == [id |-> <<>>, email |-> UNDEF, name |-> UNDEF, full_name |-> UNDEF]
NoToken == <<>>
Res(op, success, error) ==
    [op |-> op, outcome |-> "returned", success |-> success, error |-> error,
     token |-> NoToken, user |-> NoUser, needsEmailConfirmation |-> FALSE,
     value |-> FALSE, calls |-> <<>>, args |-> <<>>, backend |-> "none",
     delays |-> <<>>, data |-> <<>>]

\* no operation has finished yet; no register call in flight; a fresh form
NoResult == Res("none", TRUE, UNDEF)
Idle == [pc |-> "idle"]
NoPage == [error |-> "", loading |-> FALSE, showEmailConfirmation |-> FALSE,
           navigated |-> FALSE]

\* categoryAPI.getCategories
GetCategories ==
    /\ USE_MOCK_AUTH
    /\ localStorage' = IF ~Has(localStorage, "categories")
                       THEN SetItem(localStorage, "categories", defaultCategories)
                       ELSE localStorage
    /\ result' = Res("getCategories", TRUE, UNDEF)
    /\ UNCHANGED <<sessionVars, clock>>

\* categoryAPI.createCategory
CreateCategoryUnchecked(category) ==
    /\ USE_MOCK_AUTH
    /\ LET categories == ListOf(localStorage, "categories")
           newCategory == [_id |-> <<"cat", clock>>, name |-> category.name,
                           type |-> category.type, budget |-> category.budget]
       IN  /\ Cardinality({i \in 1..Len(categories) : categories[i]._id[2] >= T0}) < MaxCats
           /\ localStorage' = SetItem(localStorage, "categories",
                                      Append(categories, newCategory))
           /\ result' = Res("createCategory", FALSE, "Category already exists")
    /\ UNCHANGED <<sessionVars, clock>>
CreateCategory(category) ==
    /\ USE_MOCK_AUTH
    /\ LET categories == ListOf(localStorage, "categories")
           existing == \E i \in 1..Len(categories) :
                          /\ ToLowerCase(categories[i].name) = ToLowerCase(category.name)
                          /\ categories[i].type = category.type
           newCategory == [_id |-> <<"cat", clock>>, name |-> category.name,
                           type |-> category.type, budget |-> category.budget]
       IN  IF existing
           THEN /\ result' = Res("createCategory", FALSE, "Category already exists")
                /\ UNCHANGED localStorage
           ELSE /\ Cardinality({i \in 1..Len(categories) : categories[i]._id[2] >= T0}) < MaxCats
                /\ localStorage' = SetItem(localStorage, "categories",
                                           Append(categories, newCategory))
                /\ result' = Res("createCategory", TRUE, UNDEF)
    /\ UNCHANGED <<sessionVars, clock>>

\* transactionAPI.createTransaction
CreateTransaction(transaction) ==
    /\ USE_MOCK_AUTH
    /\ LET transactions == ListOf(localStorage, "transactions")
           newTransaction == [_id |-> <<"trans", clock>>, type |-> transaction.type,
                              amount |-> transaction.amount,
                              category |-> transaction.category,
                              date |-> transaction.date]
       IN  /\ Len(transactions) < MaxTrans
           /\ localStorage' = SetItem(localStorage, "transactions",
                                      Append(transactions, newTransaction))
    /\ result' = Res("createTransaction", TRUE, UNDEF)
    /\ UNCHANGED <<sessionVars, clock>>

\* transactionAPI.getTransactions
GetTransactions ==
    /\ USE_MOCK_AUTH
    /\ result' = [Res("getTransactions", TRUE, UNDEF)
                    EXCEPT !.data = ListOf(localStorage, "transactions")]
    /\ UNCHANGED <<localStorage, sessionVars, clock>>

\* what supabase.auth.getUser() and a table operation may answer to the data
\* services: a record with its kind and its error message
GetUserAnswers ==
    { [kind |-> "user",   msg |-> UNDEF],
      [kind |-> "nouser", msg |-> "No user found"],
      [kind |-> "error",  msg |-> "Auth session missing!"] }
TableAnswers ==
    { [kind |-> "ok", msg |-> UNDEF], [kind |-> "error", msg |-> "Failed to fetch"] }

\* the result of an operation that asks the backend for the user and then runs
\* one table operation (api.ts lines 321-340, 344-361)
RemoteTableResult(op, table, getUser, answer) ==
    IF getUser.kind # "user"
    THEN [Res(op, FALSE, getUser.msg) EXCEPT !.calls = <<"auth.getUser">>,
                                             !.backend = "error"]
    ELSE IF answer.kind = "error"
    THEN [Res(op, FALSE, answer.msg) EXCEPT !.calls = <<"auth.getUser", table>>,
                                            !.backend = "error"]
    ELSE [Res(op, TRUE, UNDEF) EXCEPT !.calls = <<"auth.getUser", table>>,
                                      !.backend = "ok"]

\* transactionAPI.updateTransaction: it has no mock branch
UpdateTransaction(id, transaction) ==
    /\ \E getUser \in GetUserAnswers, answer \in TableAnswers :
          /\ getUser.kind = "user" \/ answer.kind = "ok"
          /\ result' = [RemoteTableResult("updateTransaction", "transactions.update",
                                          getUser, answer)
                          EXCEPT !.args = <<id, transaction>>]
    /\ UNCHANGED <<localStorage, sessionVars, clock>>

\* transactionAPI.deleteTransaction: it has no mock branch
DeleteTransaction(id) ==
    /\ \E getUser \in GetUserAnswers, answer \in TableAnswers :
          /\ getUser.kind = "user" \/ answer.kind = "ok"
          /\ result' = [RemoteTableResult("deleteTransaction", "transactions.delete",
                                          getUser, answer)
                          EXCEPT !.args = <<id>>]
    /\ UNCHANGED <<localStorage, sessionVars, clock>>

\* A date string is modelled by the local date and hour it denotes,
\* <<year, month, day, hour>>.  new Date(s) orders dates by their instant:
\* the hours since a fixed origin (months counted as 31 days keeps the order)
Time(date) == ((date[1] * 12 + date[2]) * 31 + date[3]) * 24 + date[4]

DaysInMonth(year, month) ==
    IF month = 2
    THEN (IF year % 4 = 0 /\ (year % 100 # 0 \/ year % 400 = 0) THEN 29 ELSE 28)
    ELSE IF month \in {4, 6, 9, 11} THEN 30 ELSE 31

\* new Date(year, month - 1, 1) and new Date(year, month, 0): midnight at the
\* start of the first and of the last day of the month
StartOfMonth(year, month) == <<year, month, 1, 0>>
EndOfMonth(year, month) == <<year, month, DaysInMonth(year, month), 0>>

\* date >= start && date <= end
InRange(date, start, end) == Time(date) >= Time(start) /\ Time(date) <= Time(end)

\* reduce((sum, t) => sum + t.amount, 0)
RECURSIVE Total(_)
Total(transactions) ==
    IF transactions = <<>> THEN 0
    ELSE Head(transactions).amount + Total(Tail(transactions))

\* the data of getMonthlyTransactions (api.ts lines 367-398)
MonthlyData(ls, year, month) ==
    IF ~Has(ls, "transactions")
    THEN [transactions |-> <<>>,
          summary |-> [income |-> 0, expense |-> 0, balance |-> 0]]
    ELSE LET startDate == StartOfMonth(year, month)
             endDate == EndOfMonth(year, month)
             inMonth(t) == InRange(t.date, startDate, endDate)
             filteredTransactions == SelectSeq(ls["transactions"][1], inMonth)
             isIncome(t) == t.type = "income"
             isOther(t) == t.type # "income"
             income == Total(SelectSeq(filteredTransactions, isIncome))
             expense == Total(SelectSeq(filteredTransactions, isOther))
         IN  [transactions |-> filteredTransactions,
              summary |-> [income |-> income, expense |-> expense,
                           balance |-> income - expense]]

\* transactionAPI.getMonthlyTransactions
GetMonthlyTransactionsSeeding(year, month) ==
    /\ USE_MOCK_AUTH
    /\ result' = [Res("getMonthlyTransactions", TRUE, UNDEF)
                    EXCEPT !.data = MonthlyData(localStorage, year, month),
                           !.args = <<year, month>>]
    /\ localStorage' = IF Has(localStorage, "transactions") THEN localStorage
                       ELSE SetItem(localStorage, "transactions", <<>>)
    /\ UNCHANGED <<sessionVars, clock>>
GetMonthlyTransactions(year, month) ==
    /\ USE_MOCK_AUTH
    /\ result' = [Res("getMonthlyTransactions", TRUE, UNDEF)
                    EXCEPT !.data = MonthlyData(localStorage, year, month),
                           !.args = <<year, month>>]
    /\ UNCHANGED <<localStorage, sessionVars, clock>>

\* the keys of categoriesMap in insertion order
RECURSIVE CategoryKeys(_, _)
CategoryKeys(transactions, seen) ==
    IF transactions = <<>> THEN <<>>
    ELSE IF Head(transactions).category \in seen
    THEN CategoryKeys(Tail(transactions), seen)
    ELSE <<Head(transactions).category>>
         \o CategoryKeys(Tail(transactions), seen \cup {Head(transactions).category})

\* Array.prototype.sort((a, b) => b.total - a.total): stable, largest total first
RECURSIVE InsertByTotal(_, _)
InsertByTotal(sorted, g) ==
    IF sorted = <<>> THEN <<g>>
    ELSE IF Head(sorted).total >= g.total
    THEN <<Head(sorted)>> \o InsertByTotal(Tail(sorted), g)
    ELSE <<g>> \o sorted

RECURSIVE SortByTotal(_)
SortByTotal(groups) ==
    IF groups = <<>> THEN <<>>
    ELSE InsertByTotal(SortByTotal(SubSeq(groups, 1, Len(groups) - 1)),
                       groups[Len(groups)])

\* the data of getTransactionsByCategory (api.ts lines 449-484)
ByCategoryData(ls, startDate, endDate) ==
    IF ~Has(ls, "transactions") THEN <<>>
    ELSE LET inside(t) == InRange(t.date, startDate, endDate)
             filteredTransactions == SelectSeq(ls["transactions"][1], inside)
             keys == CategoryKeys(filteredTransactions, {})
             group(name) ==
                 LET of(t) == t.category = name
                     members == SelectSeq(filteredTransactions, of)
                 IN  [_id |-> name, total |-> Total(members), count |-> Len(members),
                      transactions |-> members]
         IN  SortByTotal([i \in 1..Len(keys) |-> group(keys[i])])

\* categoriesMap is the object literal {}: reading a key that names a member
\* of Object.prototype gives that member, not undefined
ObjectPrototypeKeys == {"constructor", "toString", "valueOf", "hasOwnProperty",
                        "__proto__"}

M_PUSH == "Cannot read properties of undefined (reading 'push')"

\* for such a key !categoriesMap[t.category] is false, no group is created
\* and categoriesMap[t.category].transactions.push(t) throws a TypeError
ByCategoryThrows(ls, startDate, endDate) ==
    /\ Has(ls, "transactions")
    /\ \E t \in Range(ls["transactions"][1]) :
          InRange(t.date, startDate, endDate) /\ t.category \in ObjectPrototypeKeys

\* transactionAPI.getTransactionsByCategory
GetTransactionsByCategory(startDate, endDate) ==
    /\ USE_MOCK_AUTH
    /\ result' = IF ByCategoryThrows(localStorage, startDate, endDate)
                 THEN [Res("getTransactionsByCategory", FALSE, M_PUSH)
                         EXCEPT !.outcome = "threw", !.args = <<startDate, endDate>>]
                 ELSE [Res("getTransactionsByCategory", TRUE, UNDEF)
                         EXCEPT !.data = ByCategoryData(localStorage, startDate, endDate),
                                !.args = <<startDate, endDate>>]
    /\ UNCHANGED <<localStorage, sessionVars, clock>>

\* category.budget ? (total / category.budget) * 100 : null, the quotient kept
\* as the exact fraction <<numerator, denominator>> and null as <<>>
PercentageOfBudgetInverted(total, budget) ==
    IF budget = NoBudget \/ budget = 0 THEN <<>> ELSE <<budget * 100, total>>
PercentageOfBudget(total, budget) ==
    IF budget = NoBudget \/ budget = 0 THEN <<>> ELSE <<total * 100, budget>>

\* the data of getCategoryStats (api.ts lines 708-746)
CategoryStatsData(ls, startDate, endDate) ==
    IF ~Has(ls, "categories") THEN <<>>
    ELSE LET categories == ls["categories"][1]
             inside(t) == InRange(t.date, startDate, endDate)
             filteredTransactions == SelectSeq(ListOf(ls, "transactions"), inside)
             stats(category) ==
                 LET of(t) == t.category = category.name
                     categoryTransactions == SelectSeq(filteredTransactions, of)
                     total == Total(categoryTransactions)
                 IN  [category |-> category.name, type |-> category.type,
                      budget |-> category.budget, spent |-> total,
                      percentageOfBudget |-> PercentageOfBudget(total, category.budget),
                      transactionCount |-> Len(categoryTransactions)]
         IN  [i \in 1..Len(categories) |-> stats(categories[i])]

\* categoryAPI.getCategoryStats
GetCategoryStats(startDate, endDate) ==
    /\ USE_MOCK_AUTH
    /\ result' = [Res("getCategoryStats", TRUE, UNDEF)
                    EXCEPT !.data = CategoryStatsData(localStorage, startDate, endDate),
                           !.args = <<startDate, endDate>>]
    /\ UNCHANGED <<localStorage, sessionVars, clock>>

\* categoryAPI.updateCategory: { ...categories[index], ...category }
UpdateCategory(id, category) ==
    /\ USE_MOCK_AUTH
    /\ LET categories == ListOf(localStorage, "categories")
           found == {i \in 1..Len(categories) : categories[i]._id = id}
       IN  IF ~Has(localStorage, "categories")
           THEN /\ result' = Res("updateCategory", FALSE, "No categories found")
                /\ UNCHANGED localStorage
           ELSE IF found = {}
           THEN /\ result' = Res("updateCategory", FALSE, "Category not found")
                /\ UNCHANGED localStorage
           ELSE LET index == CHOOSE i \in found : \A j \in found : i <= j
                    old == categories[index]
                    merged == [f \in DOMAIN old |->
                                  IF f \in DOMAIN category THEN category[f] ELSE old[f]]
                IN  /\ localStorage' = SetItem(localStorage, "categories",
                                               [categories EXCEPT ![index] = merged])
                    /\ result' = Res("updateCategory", TRUE, UNDEF)
    /\ UNCHANGED <<sessionVars, clock>>

\* the transactions a category deletion keeps (api.ts line 658)
KeptOnDelete(transactions, name) ==
    LET other(t) == t.category # name IN SelectSeq(transactions, other)

\* categoryAPI.deleteCategory
DeleteCategory(id) ==
    /\ USE_MOCK_AUTH
    /\ LET categories == ListOf(localStorage, "categories")
           found == {i \in 1..Len(categories) : categories[i]._id = id}
       IN  IF ~Has(localStorage, "categories")
           THEN /\ result' = Res("deleteCategory", FALSE, "No categories found")
                /\ UNCHANGED localStorage
           ELSE IF found = {}
           THEN /\ result' = Res("deleteCategory", FALSE, "Category not found")
                /\ UNCHANGED localStorage
           ELSE LET categoryToDelete == categories[CHOOSE i \in found : \A j \in found : i <= j]
                    notId(c) == c._id # id
                    ls1 == SetItem(localStorage, "categories", SelectSeq(categories, notId))
                IN  /\ localStorage' =
                          IF Has(ls1, "transactions")
                          THEN SetItem(ls1, "transactions",
                                       KeptOnDelete(ls1["transactions"][1],
                                                    categoryToDelete.name))
                          ELSE ls1
                    /\ result' = Res("deleteCategory", TRUE, UNDEF)
    /\ UNCHANGED <<sessionVars, clock>>

\* Date.now() moves on
Tick ==
    /\ clock < T0 + MaxClock
    /\ clock' = clock + 1
    /\ UNCHANGED <<localStorage, sessionVars, result>>

----------------------------------------------------------------------------
(* MockUserStorage (mockAuth.ts) *)

DEMO_EMAIL == "demo@budgettracker.com"
DEMO_PASSWORD == "demo1234"
DEMO_ID == "demo-user-id"

\* mockAuth.ts lines 8-16 (panId and dateOfBirth ride along unread)
DEMO_USER ==
    [email |-> DEMO_EMAIL, password |-> DEMO_PASSWORD, name |-> "",
     id |-> <<DEMO_ID>>, profileCompleted |-> FALSE]

Emails == {DEMO_EMAIL, "ann@example.com", ""}
Passwords == {DEMO_PASSWORD, "secret7", "longpassword", ""}
Names == {"Ann", ""}

\* the value a failed call of the mock store throws, or what it returns
MockThrow(msg) == [threw |-> TRUE, error |-> msg, success |-> FALSE,
                   token |-> NoToken, user |-> NoUser]
MockReturn(token, user) == [threw |-> FALSE, error |-> UNDEF, success |-> TRUE,
                            token |-> token, user |-> user]

\* const { password: _, ...userData } = user
WithPassword(user) == user
WithoutPassword(user) == [f \in DOMAIN user \ {"password"} |-> user[f]]

\* MockUserStorage.generateToken: `mock-token-${userId}-${Date.now()}`
generateToken(userId, now) == <<"mock-token", userId, now>>

\* the test of mockAuth.ts line 35, if (this.users[email])
MockUserExistsNever(us, email) == FALSE
MockUserExists(us, email) == us[email] # <<>>

\* MockUserStorage.register: the response (or the error thrown) and the users after
MockRegisterResponse(us, name, email, password, now) ==
    IF name = "" \/ email = "" \/ password = ""
    THEN [resp |-> MockThrow("All fields are required"), users |-> us]
    ELSE IF Len(password) < 8
    THEN [resp |-> MockThrow("Password must be at least 8 characters"), users |-> us]
    ELSE IF MockUserExists(us, email)
    THEN [resp |-> MockThrow("User already exists with this email"), users |-> us]
    ELSE LET newUser == [id |-> <<"user", now>>, name |-> name, email |-> email,
                         password |-> password, profileCompleted |-> FALSE]
         IN  [resp |-> MockReturn(generateToken(newUser.id, now), WithoutPassword(newUser)),
              users |-> [us EXCEPT ![email] = <<newUser>>]]

\* MockUserStorage.login
MockLoginAnyPassword(us, email, password, now) ==
    IF email = "" \/ password = ""
    THEN MockThrow("Email and password are required")
    ELSE IF us[email] = <<>>
    THEN MockThrow("Invalid credentials")
    ELSE MockReturn(generateToken(us[email][1].id, now), WithoutPassword(us[email][1]))
MockLogin(us, email, password, now) ==
    IF email = "" \/ password = ""
    THEN MockThrow("Email and password are required")
    ELSE IF us[email] = <<>>
    THEN MockThrow("Invalid credentials")
    ELSE IF us[email][1].password # password
    THEN MockThrow("Invalid credentials")
    ELSE MockReturn(generateToken(us[email][1].id, now), WithoutPassword(us[email][1]))

----------------------------------------------------------------------------
(* The remote backend's answers *)

M_REGISTERED == "User already registered"
M_RATE == "email rate limit exceeded"
M_FK == "insert or update violates foreign key constraint"
M_DUP == "duplicate key value violates unique constraint profiles_email_key"
M_NET == "Failed to fetch"
M_CRED == "Invalid login credentials"
M_TYPEERROR == "Cannot read properties of undefined (reading 'includes')"

\* String.prototype.includes on the messages in use
Includes(msg, needle) ==
    needle \in
      CASE msg = M_REGISTERED -> {"User already registered"}
        [] msg = M_RATE -> {"email rate limit exceeded", "email rate limit"}
        [] msg = M_FK -> {"constraint", "foreign key"}
        [] msg = M_DUP -> {"duplicate key value", "profiles_email_key", "constraint"}
        [] OTHER -> {}

\* a || b on strings: '' and undefined are falsy
Or(a, b) == IF a = "" \/ a = UNDEF THEN b ELSE a

REMOTE_ID == <<"uid", 1>>
ACCESS_TOKEN == <<"access", 1>>
REFRESHED_TOKEN == <<"access", 2>>

\* user_metadata of the backend's user, and the user_profiles row
Metas == { [name |-> "Ann", full_name |-> "Ann"], [name |-> UNDEF, full_name |-> "Ann"] }
NoProfile == [full_name |-> UNDEF, name |-> UNDEF]
Profiles == { [full_name |-> "Ann P", name |-> UNDEF] }

\* an error result carries a message; a thrown value may carry none
Ok == [kind |-> "ok", msg |-> UNDEF, code |-> UNDEF]
Err(msg) == [kind |-> "error", msg |-> msg, code |-> UNDEF]
Throws(msg) == [kind |-> "throws", msg |-> msg, code |-> UNDEF]

----------------------------------------------------------------------------
(* AuthService: credentials in local storage *)

\* AuthService.saveUserCredentials
saveUserCredentialsTokenOnly(ls, user, token) == SetItem(ls, "token", token)
saveUserCredentials(ls, user, token) ==
    LET ls1 == SetItem(ls, "token", token)
        ls2 == SetItem(ls1, "userData", user)
    IN  SetItem(ls2, "userProfile",
                [name |-> Or(user.name, user.full_name), email |-> user.email,
                 profileImage |-> UNDEF, dateOfBirth |-> "", panId |-> ""])

\* AuthService.updateStoredToken
updateStoredTokenAndUserToken(ls, newToken) ==
    SetItem(SetItem(ls, "token", newToken), "userToken", newToken)
updateStoredToken(ls, newToken) == SetItem(ls, "token", newToken)

\* AuthService.clearLocalStorageOnly: keysToRemove
keysToRemove ==
    << "token", "userData", "currentUser", "userProfile", "transactions",
       "customCategories", "reminders", "monthlyBudget", "cartItems",
       "paidRemindersHistory", "profileData", "sb-hyakzfaxrfsistgwlzln-auth-token" >>

clearLocalStorageOnly(ls) == RemoveAll(ls, keysToRemove)

\* sessionStorage.clear()
ClearedSession == [k \in SessionKeys |-> <<>>]

\* the local-storage login check of isLoggedIn: !!(token && isAuthenticated === 'true')
LocalLoginCheck(ls) ==
    /\ Has(ls, "token") /\ ls["token"][1] # NoToken
    /\ ls["isAuthenticated"] = <<"true">>

----------------------------------------------------------------------------
(* AuthService.login *)

\* the test of api.ts line 923
IsDemoLogin(email, password) == email = DEMO_EMAIL /\ password = DEMO_PASSWORD

\* what signInWithPassword may answer for an email: the user of that email
\* (no account has the empty email), an error result, or an exception
SignInOutcomes(email) ==
    {[kind |-> "ok", msg |-> UNDEF, session |-> s, meta |-> m] :
        s \in (IF email = "" THEN {} ELSE BOOLEAN), m \in Metas}
    \cup {[kind |-> "error", msg |-> M_CRED, session |-> FALSE, meta |-> NoProfile]}
    \cup {[kind |-> "throws", msg |-> m, session |-> FALSE, meta |-> NoProfile] :
             m \in {M_NET, UNDEF}}

\* what the user_profiles lookup of login and getCurrentUser may answer
ProfileOutcomes ==
    {[kind |-> "ok", profile |-> pr] : pr \in Profiles \cup {NoProfile}}
    \cup {[kind |-> "throws", profile |-> NoProfile]}

\* the AuthUser built from the backend's user and its profile row
RemoteAuthUserOfProfile(email, profile, meta) ==
    [id |-> REMOTE_ID, email |-> UNDEF,
     name |-> Or(Or(profile.full_name, profile.name), meta.name),
     full_name |-> Or(Or(profile.full_name, profile.name), meta.full_name)]
RemoteAuthUser(email, profile, meta) ==
    [id |-> REMOTE_ID, email |-> email,
     name |-> Or(Or(profile.full_name, profile.name), meta.name),
     full_name |-> Or(Or(profile.full_name, profile.name), meta.full_name)]

\* the remote half of login (api.ts lines 953-996): the result and the storage after
RemoteLogin(ls, email, signIn, prof) ==
    IF signIn.kind \in {"error", "throws"}
    THEN [ls |-> ls,
          res |-> [Res("login", FALSE, Or(signIn.msg, "Login failed"))
                     EXCEPT !.calls = <<"auth.signInWithPassword">>,
                            !.backend = signIn.kind]]
    ELSE IF ~signIn.session
    THEN [ls |-> ls,
          res |-> [Res("login", FALSE, "No user data received")
                     EXCEPT !.calls = <<"auth.signInWithPassword">>, !.backend = "ok"]]
    ELSE IF prof.kind = "throws"
    THEN [ls |-> ls,
          res |-> [Res("login", FALSE, Or(M_NET, "Login failed"))
                     EXCEPT !.calls = <<"auth.signInWithPassword", "user_profiles.select">>,
                            !.backend = "throws"]]
    ELSE LET user == RemoteAuthUser(email, prof.profile, signIn.meta)
         IN  [ls |-> saveUserCredentials(ls, user, ACCESS_TOKEN),
              res |-> [Res("login", TRUE, UNDEF)
                         EXCEPT !.user = user, !.token = ACCESS_TOKEN,
                                !.calls = <<"auth.signInWithPassword",
                                            "user_profiles.select">>,
                                !.backend = "ok"]]

\* the test of api.ts line 927, if (response.success), which ends the demo path
DemoReturnsNever(response) == FALSE
DemoReturns(response) == response.success

\* the whole of login: the result and the storage after
LoginOutcome(ls, us, now, email, password, signIn, prof) ==
    LET response == MockLogin(us, email, password, now)
        remote == RemoteLogin(ls, email, signIn, prof)
    IN  IF IsDemoLogin(email, password)
        THEN IF response.threw
             THEN [ls |-> ls,
                   res |-> [Res("login", FALSE, response.error)
                              EXCEPT !.calls = <<"mockAuth.login">>]]
             ELSE IF DemoReturns(response)
             THEN LET user == [id |-> response.user.id, email |-> response.user.email,
                               name |-> response.user.name,
                               full_name |-> response.user.name]
                      ls1 == saveUserCredentials(ls, user, response.token)
                      ls2 == SetItem(ls1, "userToken", response.token)
                      ls3 == SetItem(ls2, "isAuthenticated", "true")
                      ls4 == SetItem(ls3, "userId", user.id)
                      ls5 == SetItem(ls4, "userEmail", user.email)
                  IN  [ls |-> ls5,
                       res |-> [Res("login", TRUE, UNDEF)
                                  EXCEPT !.user = user, !.token = response.token,
                                         !.calls = <<"mockAuth.login">>]]
             ELSE [ls |-> remote.ls,
                   res |-> [remote.res EXCEPT
                              !.calls = <<"mockAuth.login">> \o remote.res.calls]]
        ELSE remote

\* authService.login(email, password)
Login(email, password) ==
    /\ reg.pc = "idle"
    /\ \E signIn \in SignInOutcomes(email), prof \in ProfileOutcomes :
          LET out == LoginOutcome(localStorage, users, clock, email, password, signIn, prof)
          IN  \* the profile is looked up only after a sign-in with a session
              /\ (signIn.kind = "ok" /\ signIn.session) \/ prof.kind = "throws"
              /\ localStorage' = out.ls
              /\ result' = [out.res EXCEPT !.args = <<email, password>>]
    /\ loggedOut' = FALSE
    /\ UNCHANGED <<sessionStorage, users, clock, pending, reg, page>>

----------------------------------------------------------------------------
(* AuthService.logout *)

SignOutOutcomes == {Ok, Err(M_NET), Throws(M_NET), Throws(UNDEF)}

\* what logout returns for an outcome of supabase.auth.signOut()
LogoutResultFailing(signOut) ==
    IF signOut.kind = "throws"
    THEN [Res("logout", FALSE, signOut.msg) EXCEPT !.calls = <<"auth.signOut">>,
                                                  !.backend = signOut.kind]
    ELSE [Res("logout", TRUE, UNDEF) EXCEPT !.calls = <<"auth.signOut">>,
                                                  !.backend = signOut.kind]
LogoutResult(signOut) ==
    IF signOut.kind = "throws"
    THEN [Res("logout", TRUE, signOut.msg) EXCEPT !.calls = <<"auth.signOut">>,
                                                  !.backend = signOut.kind]
    ELSE [Res("logout", TRUE, UNDEF) EXCEPT !.calls = <<"auth.signOut">>,
                                                  !.backend = signOut.kind]

\* authService.logout()
Logout ==
    /\ reg.pc = "idle"
    /\ \E signOut \in SignOutOutcomes :
          /\ localStorage' = clearLocalStorageOnly(localStorage)
          /\ sessionStorage' = ClearedSession
          /\ result' = LogoutResult(signOut)
    /\ loggedOut' = TRUE
    /\ UNCHANGED <<users, clock, pending, reg, page>>

----------------------------------------------------------------------------
(* AuthService.register and the Signup form *)

\* api.ts lines 1032 and 1065
maxRetries == 3
maxProfileChecks == 5

EXISTS_MSG == "An account with this email already exists. Please try logging in instead."
RATE_MSG == "Too many registration attempts. Please wait a few minutes and try again."
CONFIRM_MSG == "Please check your email and click the confirmation link. You will be redirected to your dashboard automatically."

NoErr == [kind |-> "none", msg |-> UNDEF, code |-> UNDEF]

\* what supabase.auth.signUp may answer: a user with or without a session,
\* neither user nor error, an error result, or a thrown exception
SignUpOutcomes ==
    { [kind |-> "ok", msg |-> UNDEF, code |-> UNDEF, user |-> TRUE,  session |-> TRUE],
      [kind |-> "ok", msg |-> UNDEF, code |-> UNDEF, user |-> TRUE,  session |-> FALSE],
      [kind |-> "ok", msg |-> UNDEF, code |-> UNDEF, user |-> FALSE, session |-> FALSE] }
    \cup {[kind |-> "error", msg |-> m, code |-> UNDEF, user |-> FALSE, session |-> FALSE] :
             m \in {M_REGISTERED, M_RATE, M_FK, M_NET}}
    \cup {[kind |-> "throws", msg |-> m, code |-> UNDEF, user |-> FALSE, session |-> FALSE] :
             m \in {M_DUP, M_NET, UNDEF}}
    \cup {[kind |-> "throws", msg |-> M_NET, code |-> "23505", user |-> FALSE,
            session |-> FALSE]}

\* the outer catch of register (api.ts lines 1181-1198)
RegisterCatchRethrows(err, calls) ==
    [Res("register", FALSE, err.msg)
       EXCEPT !.outcome = "threw", !.calls = calls, !.backend = err.kind]
RegisterCatchUnmapped(err, calls) ==
    [Res("register", FALSE, Or(err.msg, "Registration failed"))
       EXCEPT !.calls = calls, !.backend = err.kind]
RegisterCatch(err, calls) ==
    IF \/ Includes(err.msg, "duplicate key value")
       \/ Includes(err.msg, "profiles_email_key")
       \/ err.code = "23505"
    THEN [Res("register", FALSE, EXISTS_MSG) EXCEPT !.calls = calls, !.backend = err.kind]
    ELSE [Res("register", FALSE, Or(err.msg, "Registration failed"))
            EXCEPT !.calls = calls, !.backend = err.kind]

\* register after its retry loop (api.ts lines 1127-1180): the result and the
\* local and session storage after
RegisterFinish(ls, ss, name, email, regError, data, calls) ==
    IF regError.kind # "none"
    THEN [ls |-> ls, ss |-> ss,
          res |-> IF regError.msg = UNDEF
                  THEN RegisterCatch([kind |-> "throws", msg |-> M_TYPEERROR,
                                      code |-> UNDEF], calls)
                  ELSE IF \/ Includes(regError.msg, "User already registered")
                          \/ Includes(regError.msg, "already exists")
                  THEN [Res("register", FALSE, EXISTS_MSG)
                          EXCEPT !.calls = calls, !.backend = regError.kind]
                  ELSE IF Includes(regError.msg, "email rate limit")
                  THEN [Res("register", FALSE, RATE_MSG)
                          EXCEPT !.calls = calls, !.backend = regError.kind]
                  ELSE RegisterCatch(regError, calls)]
    ELSE IF data.user
    THEN IF ~data.session
         THEN [ls |-> ls,
               ss |-> [ss EXCEPT !["pendingUserRegistration"] = <<"true">>,
                                 !["pendingUserName"] = <<name>>],
               res |-> [Res("register", TRUE, CONFIRM_MSG)
                          EXCEPT !.needsEmailConfirmation = TRUE, !.calls = calls,
                                 !.backend = "ok"]]
         ELSE LET user == [id |-> REMOTE_ID, email |-> email, name |-> name,
                           full_name |-> name]
              IN  [ls |-> saveUserCredentials(ls, user, ACCESS_TOKEN), ss |-> ss,
                   res |-> [Res("register", TRUE, UNDEF)
                              EXCEPT !.user = user, !.token = ACCESS_TOKEN,
                                     !.calls = calls, !.backend = "ok"]]
    ELSE [ls |-> ls, ss |-> ss,
          res |-> [Res("register", FALSE, "Registration failed - no user data received")
                     EXCEPT !.calls = calls, !.backend = "ok"]]

\* the six keys the Signup and Login pages remove after a success
staleKeys == << "transactions", "customCategories", "reminders", "monthlyBudget",
                "cartItems", "paidRemindersHistory" >>

\* register has returned `done` to its caller; when the caller is the Signup
\* form, the rest of Signup.handleSubmit runs (Signup.tsx lines 55-81)
Return(done, caller, args) ==
    /\ result' = [done.res EXCEPT !.args = args]
    /\ reg' = Idle
    /\ IF caller # "Signup"
       THEN /\ localStorage' = done.ls
            /\ sessionStorage' = done.ss
            /\ UNCHANGED page
       ELSE IF done.res.success /\ done.res.needsEmailConfirmation
       THEN /\ localStorage' = done.ls
            /\ sessionStorage' = done.ss
            /\ page' = [page EXCEPT !.showEmailConfirmation = TRUE, !.error = "",
                                    !.loading = FALSE]
       ELSE IF done.res.success
       THEN /\ localStorage' = RemoveAll(done.ls, staleKeys)
            /\ sessionStorage' = [done.ss EXCEPT !["newUserRegistration"] = <<"true">>,
                                                 !["registeredName"] = <<args[1]>>]
            /\ page' = [page EXCEPT !.navigated = TRUE, !.error = "", !.loading = FALSE]
       ELSE /\ localStorage' = done.ls
            /\ sessionStorage' = done.ss
            /\ page' = [page EXCEPT
                          !.error = Or(done.res.error,
                                       "Registration failed: Invalid response from server"),
                          !.loading = FALSE]

\* what the user_profiles lookup for the email may answer
ExistingOutcomes == {"none", "existing", "throws"}

\* register from its call to the start of the retry loop (api.ts lines
\* 1000-1032), the lookup for an existing profile answering `lookup`
RegisterStartWith(name, email, password, caller, lookup) ==
    /\ reg.pc = "idle"
    /\ loggedOut' = FALSE
    /\    LET calls == <<"rpc.cleanup_orphaned_profile", "user_profiles.select">>
          IN  CASE lookup = "throws" ->
                     Return([ls |-> localStorage, ss |-> sessionStorage,
                             res |-> RegisterCatch(Throws(M_NET), calls)],
                            caller, <<name, email, password>>)
                [] lookup = "existing" ->
                     Return([ls |-> localStorage, ss |-> sessionStorage,
                             res |-> [Res("register", FALSE, EXISTS_MSG)
                                        EXCEPT !.calls = calls, !.backend = "ok"]],
                            caller, <<name, email, password>>)
                [] OTHER ->
                     /\ reg' = [pc |-> "signUp", name |-> name, email |-> email,
                                password |-> password, caller |-> caller,
                                retryCount |-> 0, calls |-> calls, delays |-> <<>>,
                                conflict |-> FALSE]
                     /\ result' = [Res("register", FALSE, UNDEF)
                                     EXCEPT !.outcome = "pending", !.calls = calls,
                                            !.args = <<name, email, password>>]
                     /\ UNCHANGED <<localStorage, sessionStorage>>
                     /\ page' = IF caller = "Signup"
                                THEN [page EXCEPT !.error = "", !.loading = TRUE]
                                ELSE page
    /\ UNCHANGED <<users, clock, pending>>

RegisterStart(name, email, password, caller) ==
    \E lookup \in ExistingOutcomes :
       RegisterStartWith(name, email, password, caller, lookup)

\* authService.register(name, email, password), called directly
Register(name, email, password) ==
    RegisterStart(name, email, password, "direct")

\* the test of the retry loop, while (retryCount <= maxRetries)
LoopContinuesAlways(retryCount) == TRUE
LoopContinues(retryCount) == retryCount <= maxRetries

\* the progressive delay before a retry: setTimeout(resolve, 500 * retryCount)
RetryDelay(retryCount) == 500 * retryCount

\* k profile checks after a signUp that returned a user (api.ts lines 1064-1093)
ProfileChecks(k) == [i \in 1..k |-> "user_profiles.select"]

\* a duplicate-key answer, as the outer catch recognises it (lines 1185-1187)
DuplicateKey(err) ==
    /\ err.kind \in {"error", "throws"}
    /\ \/ Includes(err.msg, "duplicate key value")
       \/ Includes(err.msg, "profiles_email_key")
       \/ err.code = "23505"

\* one pass of register's retry loop (api.ts lines 1034-1125), signUp
\* answering `out` and the profile turning up at the k-th check, and, when
\* the loop ends with it, the rest of register
RegSignUpWith(out, k) ==
    /\ reg.pc = "signUp"
    /\    LET r == reg.retryCount
              calls0 == reg.calls
                        \o (IF r = 0 THEN <<"rpc.cleanup_orphaned_profile">> ELSE <<>>)
                        \o <<"auth.signUp">>
              succeeded == out.kind = "ok" /\ out.user
              calls == IF succeeded THEN calls0 \o ProfileChecks(k) ELSE calls0
              regError == IF out.kind = "ok" THEN NoErr
                          ELSE [kind |-> out.kind, msg |-> out.msg, code |-> out.code]
              noRetry == /\ out.kind = "error"
                         /\ \/ Includes(out.msg, "User already registered")
                            \/ Includes(out.msg, "already exists")
                            \/ Includes(out.msg, "email rate limit exceeded")
              retry == \/ /\ out.kind = "error"
                          /\ \/ Includes(out.msg, "constraint")
                             \/ Includes(out.msg, "foreign key")
                       \/ r < maxRetries
              \* the pass ends in retryCount++ and a delay (lines 1109-1113,
              \* 1119-1123); a thrown attempt past the bound breaks before it
              waits == IF out.kind = "throws" THEN r + 1 <= maxRetries
                       ELSE ~succeeded /\ ~noRetry /\ retry
              delays == IF waits THEN Append(reg.delays, RetryDelay(r + 1))
                        ELSE reg.delays
              again == waits /\ LoopContinues(r + 1)
              done == RegisterFinish(localStorage, sessionStorage, reg.name,
                                     reg.email, regError, out, calls)
          IN  /\ succeeded \/ k = 1
              /\ IF again
                 THEN /\ reg' = [reg EXCEPT !.retryCount = r + 1, !.calls = calls,
                                            !.delays = delays,
                                            !.conflict = reg.conflict \/ DuplicateKey(out)]
                      /\ result' = [result EXCEPT !.calls = calls, !.delays = delays]
                      /\ UNCHANGED <<localStorage, sessionStorage, page>>
                 ELSE Return([done EXCEPT !.res.delays = delays],
                             reg.caller, <<reg.name, reg.email, reg.password>>)
    /\ UNCHANGED <<users, clock, pending, loggedOut>>

RegSignUp ==
    \E out \in SignUpOutcomes, k \in 1..maxProfileChecks : RegSignUpWith(out, k)

\* Signup.handleSubmit (Signup.tsx lines 29-82)
SignupSubmit(formData) ==
    /\ reg.pc = "idle"
    /\ IF \/ formData.name = "" \/ formData.email = ""
          \/ formData.password = "" \/ formData.confirmPassword = ""
       THEN /\ page' = [page EXCEPT !.error = "Please fill all fields", !.loading = FALSE]
            /\ result' = [Res("Signup.handleSubmit", FALSE, "Please fill all fields")
                            EXCEPT !.args = <<formData.name, formData.email,
                                              formData.password>>]
            /\ UNCHANGED <<localStorage, sessionStorage, users, clock, pending, reg,
                           loggedOut>>
       ELSE IF formData.password # formData.confirmPassword
       THEN /\ page' = [page EXCEPT !.error = "Passwords do not match", !.loading = FALSE]
            /\ result' = [Res("Signup.handleSubmit", FALSE, "Passwords do not match")
                            EXCEPT !.args = <<formData.name, formData.email,
                                              formData.password>>]
            /\ UNCHANGED <<localStorage, sessionStorage, users, clock, pending, reg,
                           loggedOut>>
       ELSE IF Len(formData.password) < 8
       THEN /\ page' = [page EXCEPT !.error = "Password must be at least 8 characters",
                                    !.loading = FALSE]
            /\ result' = [Res("Signup.handleSubmit", FALSE,
                              "Password must be at least 8 characters")
                            EXCEPT !.args = <<formData.name, formData.email,
                                              formData.password>>]
            /\ UNCHANGED <<localStorage, sessionStorage, users, clock, pending, reg,
                           loggedOut>>
       ELSE RegisterStart(formData.name, formData.email, formData.password, "Signup")

----------------------------------------------------------------------------
(* AuthService: the session queries and resendConfirmation *)

\* what supabase.auth.getUser / getSession may answer
SessionOutcomes == {"present", "absent", "throws"}

\* JSON.parse(localStorage.getItem('userData')), or null
StoredUser(ls) == IF Has(ls, "userData") THEN ls["userData"][1] ELSE NoUser

\* authService.getCurrentUser()
GetCurrentUser ==
    /\ reg.pc = "idle"
    /\ \E getUser \in SessionOutcomes, prof \in ProfileOutcomes, meta \in Metas :
          result' =
            IF getUser = "present" /\ prof.kind = "ok"
            THEN [Res("getCurrentUser", TRUE, UNDEF)
                    EXCEPT !.user = RemoteAuthUser("ann@example.com", prof.profile, meta),
                           !.calls = <<"auth.getUser", "user_profiles.select">>]
            ELSE [Res("getCurrentUser", TRUE, UNDEF)
                    EXCEPT !.user = StoredUser(localStorage),
                           !.calls = IF getUser = "present"
                                     THEN <<"auth.getUser", "user_profiles.select">>
                                     ELSE <<"auth.getUser">>]
    /\ UNCHANGED <<localStorage, sessionStorage, users, clock, pending, reg, page,
                   loggedOut>>

\* authService.isLoggedIn()
IsLoggedIn ==
    /\ reg.pc = "idle"
    /\ \E getSession \in SessionOutcomes :
          result' = [Res("isLoggedIn", TRUE, UNDEF)
                       EXCEPT !.value = IF getSession = "present" THEN TRUE
                                        ELSE LocalLoginCheck(localStorage),
                              !.calls = <<"auth.getSession">>]
    /\ UNCHANGED <<localStorage, sessionStorage, users, clock, pending, reg, page,
                   loggedOut>>

ResendOutcomes == {Ok, Err(M_RATE), Throws(M_NET), Throws(UNDEF)}

\* authService.resendConfirmation(email)
ResendConfirmation(email) ==
    /\ reg.pc = "idle"
    /\ \E out \in ResendOutcomes :
          result' =
            [(CASE out.kind = "ok" -> Res("resendConfirmation", TRUE, UNDEF)
                [] out.kind = "error" -> Res("resendConfirmation", FALSE, out.msg)
                [] OTHER -> Res("resendConfirmation", FALSE,
                                Or(out.msg, "Failed to resend confirmation email")))
               EXCEPT !.calls = <<"auth.resend">>, !.backend = out.kind]
    /\ UNCHANGED <<localStorage, sessionStorage, users, clock, pending, reg, page,
                   loggedOut>>

\* mockAuth.register(name, email, password), which throws its failures
MockRegister(name, email, password) ==
    /\ reg.pc = "idle"
    /\ LET r == MockRegisterResponse(users, name, email, password, clock)
       IN  /\ users' = r.users
           /\ result' = [Res("mockAuth.register", r.resp.success, r.resp.error)
                           EXCEPT !.outcome = IF r.resp.threw THEN "threw" ELSE "returned",
                                  !.token = r.resp.token,
                                  !.data = IF r.resp.threw THEN <<>> ELSE r.resp.user]
    /\ UNCHANGED <<localStorage, sessionStorage, clock, pending, reg, page, loggedOut>>

\* mockAuth.login(email, password), which throws its failures
MockLoginCall(email, password) ==
    /\ reg.pc = "idle"
    /\ LET r == MockLogin(users, email, password, clock)
       IN  result' = [Res("mockAuth.login", r.success, r.error)
                        EXCEPT !.outcome = IF r.threw THEN "threw" ELSE "returned",
                               !.token = r.token, !.args = <<email, password>>,
                               !.data = IF r.threw THEN <<>> ELSE r.user]
    /\ UNCHANGED <<localStorage, sessionStorage, users, clock, pending, reg, page,
                   loggedOut>>

\* the rest of the application caches its data under these keys
CacheWrite(k) ==
    /\ localStorage' = SetItem(localStorage, k, "data")
    /\ result' = Res("cacheWrite", TRUE, UNDEF)
    /\ UNCHANGED <<sessionStorage, users, clock, pending, reg, page, loggedOut>>

----------------------------------------------------------------------------
(* AuthService: the auth state listener and handleAuthenticatedUser *)

\* how many sign-ins are handled at once, and where the model stops following
\* a retry count that the code lets grow
MaxPending == 1
MaxRetryCount == 5

\* the retry bound of api.ts lines 855 and 885
RETRY_LIMIT == 3

SESSION_USER == [id |-> REMOTE_ID, email |-> "ann@example.com"]

\* the answers of the user_profiles lookup: the row, an error with a code
\* (PGRST116 is "no rows"), an error without one, or an exception
LookupOutcomes ==
    { [kind |-> "found",  code |-> UNDEF],
      [kind |-> "error",  code |-> "PGRST116"],
      [kind |-> "error",  code |-> "42501"],
      [kind |-> "error",  code |-> UNDEF],
      [kind |-> "throws", code |-> UNDEF] }

\* the test of api.ts line 810: !profile && !profileError?.code?.includes('PGRST116')
EntersCreation(lookup) == lookup.kind = "error" /\ lookup.code # "PGRST116"

\* the seed of MockUserStorage.users (mockAuth.ts lines 20-22)
SeedUsers == [e \in Emails |-> IF e = DEMO_EMAIL THEN <<DEMO_USER>> ELSE <<>>]

\* api.ts lines 871-875
StoreAuthState(ls, user) ==
    LET ls1 == SetItem(ls, "userToken", NoToken)
        ls2 == SetItem(ls1, "refreshToken", NoToken)
        ls3 == SetItem(ls2, "userEmail", user.email)
        ls4 == SetItem(ls3, "userId", user.id)
    IN  SetItem(ls4, "isAuthenticated", "true")

\* one invocation handleAuthenticatedUser(user, retryCount); `next` is the
\* retry count it hands on (by recursion or by setTimeout), or -1 for none
HandleAuthenticatedUser(r) ==
    /\ reg.pc = "idle"
    /\ r \in pending
    /\ \E lookup \in LookupOutcomes, create \in {"ok", "error", "throws"},
          insert \in {"ok", "error", "throws"} :
          LET creating == EntersCreation(lookup)
              inserting == creating /\ create = "error"
              calls == <<"user_profiles.select">>
                       \o (IF creating THEN <<"rpc.create_user_profile">> ELSE <<>>)
                       \o (IF inserting THEN <<"user_profiles.insert">> ELSE <<>>)
              next == IF lookup.kind = "throws"
                      THEN (IF r < RETRY_LIMIT THEN r + 1 ELSE 0 - 1)
                      ELSE IF ~creating THEN 0 - 1
                      ELSE IF create = "ok" THEN r + 1
                      ELSE IF inserting /\ insert = "ok" THEN r + 1
                      ELSE IF r < RETRY_LIMIT THEN r + 1
                      ELSE 0 - 1
          IN  /\ creating \/ create = "ok"
              /\ inserting \/ insert = "ok"
              /\ next <= MaxRetryCount
              /\ result' = [Res("handleAuthenticatedUser", lookup.kind = "found",
                                lookup.code)
                              EXCEPT !.calls = calls, !.args = <<lookup.kind>>,
                                     !.value = next >= 0]
              /\ IF lookup.kind = "found"
                 THEN \* the state is stored and the page reloads: timers and the
                      \* in-memory mock store start afresh
                      /\ localStorage' = StoreAuthState(localStorage, SESSION_USER)
                      /\ pending' = {}
                      /\ users' = SeedUsers
                      /\ page' = NoPage
                 ELSE /\ pending' = (pending \ {r}) \cup (IF next >= 0 THEN {next} ELSE {})
                      /\ UNCHANGED <<localStorage, users, page>>
    /\ UNCHANGED <<sessionStorage, clock, reg, loggedOut>>

AuthEvents == {"SIGNED_IN", "TOKEN_REFRESHED", "SIGNED_OUT", "USER_UPDATED"}

\* the callback of setupAuthStateListener (api.ts lines 778-795)
AuthStateChange(event, session) ==
    /\ reg.pc = "idle"
    /\ event = "SIGNED_IN" /\ session => Cardinality(pending) < MaxPending
    /\ pending' = IF event = "SIGNED_IN" /\ session THEN pending \cup {0} ELSE pending
    /\ LET ls1 == IF event = "TOKEN_REFRESHED" /\ session
                  THEN updateStoredToken(localStorage, REFRESHED_TOKEN)
                  ELSE localStorage
       IN  localStorage' = IF event = "SIGNED_OUT" THEN clearLocalStorageOnly(ls1) ELSE ls1
    /\ sessionStorage' = IF event = "SIGNED_OUT" THEN ClearedSession ELSE sessionStorage
    /\ result' = [Res("onAuthStateChange", TRUE, UNDEF) EXCEPT !.args = <<event>>]
    /\ UNCHANGED <<users, clock, reg, page, loggedOut>>

----------------------------------------------------------------------------
(* The initial state: empty storage, the mock store seeded with the demo user *)


Init ==
    /\ localStorage = [k \in Keys |-> <<>>]
    /\ sessionStorage = [k \in SessionKeys |-> <<>>]
    /\ users = SeedUsers
    /\ clock = T0
    /\ result = NoResult
    /\ pending = {}
    /\ reg = Idle
    /\ page = NoPage
    /\ loggedOut = FALSE

----------------------------------------------------------------------------
(* The data services on their own *)

Day1 == <<2024, 1, 15, 0>>
Day2 == <<2024, 1, 31, 10>>

TxInputs ==
    { [type |-> "expense", amount |-> 10, category |-> "Food",   date |-> Day1],
      [type |-> "expense", amount |-> 25, category |-> "Rent",   date |-> Day2],
      [type |-> "income",  amount |-> 25, category |-> "Income", date |-> Day1],
      [type |-> "income",  amount |-> 10, category |-> "Food",   date |-> Day2] }

CatInputs ==
    { [name |-> "Rent", type |-> "expense", budget |-> NoBudget],
      [name |-> "food", type |-> "expense", budget |-> 100],
      [name |-> "Food", type |-> "income",  budget |-> 100] }

CatUpdates ==
    { [name |-> "Rent"], [type |-> "income", budget |-> 100] }

IdInputs == { <<"cat", 1>>, <<"cat", T0>>, <<"cat", 99>> }

StoreNext ==
    \/ GetCategories
    \/ \E c \in CatInputs : CreateCategory(c)
    \/ \E id \in IdInputs, c \in CatUpdates : UpdateCategory(id, c)
    \/ \E id \in IdInputs : DeleteCategory(id)
    \/ \E t \in TxInputs : CreateTransaction(t)
    \/ Tick

SpecStore == Init /\ [][StoreNext]_vars

----------------------------------------------------------------------------
(* Claims about the data services *)

\* a step in which deleteCategory succeeded: the one action that shortens the
\* category list
DeleteStep ==
    /\ result'.op = "deleteCategory" /\ result'.success
    /\ Len(ListOf(localStorage', "categories")) < Len(ListOf(localStorage, "categories"))

DeletedNames ==
    {c.name : c \in Range(ListOf(localStorage, "categories"))
                     \ Range(ListOf(localStorage', "categories"))}

\* C1: every successful deleteCategory keeps every transaction, with its
\* amount and date unchanged, and leaves those that referenced the deleted
\* category without a category (detached, not deleted).
C1_DeleteDetaches ==
    [][DeleteStep =>
         LET old == ListOf(localStorage, "transactions")
             new == ListOf(localStorage', "transactions")
         IN  /\ Len(new) = Len(old)
             /\ \A i \in 1..Len(old) :
                   /\ new[i]._id = old[i]._id
                   /\ new[i].amount = old[i].amount
                   /\ new[i].date = old[i].date
                   /\ new[i].category =
                        IF old[i].category \in DeletedNames THEN UNDEF
                        ELSE old[i].category]_vars

----------------------------------------------------------------------------
(* Logins against the mock store and the backend *)

LoginNext ==
    \/ \E e \in Emails, p \in Passwords : Login(e, p)
    \/ Logout
    \/ \E n \in Names, e \in Emails, p \in Passwords : MockRegister(n, e, p)
    \/ Tick

SpecLogin == Init /\ [][LoginNext]_vars

(* Registration, directly and through the Signup form *)

RegPasswords == {"secret7", "longpassword"}

FormInputs ==
    { [name |-> n, email |-> "ann@example.com", password |-> p, confirmPassword |-> c] :
        n \in Names, p \in RegPasswords, c \in RegPasswords }

SignupNext ==
    \/ \E p \in RegPasswords : Register("Ann", "ann@example.com", p)
    \/ RegSignUp
    \/ \E f \in FormInputs : SignupSubmit(f)
    \/ Logout

SpecSignup == Init /\ [][SignupNext]_vars

(* Every operation of the auth manager *)

AuthNext ==
    \/ \E e \in {DEMO_EMAIL, "ann@example.com"} : Login(e, DEMO_PASSWORD)
    \/ \E p \in RegPasswords : Register("Ann", "ann@example.com", p)
    \/ RegSignUp
    \/ Logout
    \/ GetCurrentUser
    \/ IsLoggedIn
    \/ ResendConfirmation("ann@example.com")

SpecAuth == Init /\ [][AuthNext]_vars

(* Logout and the cached data *)

SampleTx == [type |-> "expense", amount |-> 10, category |-> "Food", date |-> Day1]

LogoutNext ==
    \/ Login(DEMO_EMAIL, DEMO_PASSWORD)
    \/ Logout
    \/ \E k \in CacheKeys : CacheWrite(k)
    \/ GetCategories
    \/ CreateTransaction(SampleTx)

SpecLogout == Init /\ [][LogoutNext]_vars

(* The session: logins, logouts, auth state events and profile handling *)

SessionNext ==
    \/ \E e \in {DEMO_EMAIL, "ann@example.com"} : Login(e, DEMO_PASSWORD)
    \/ Logout
    \/ \E ev \in AuthEvents, s \in BOOLEAN : AuthStateChange(ev, s)
    \/ \E r \in 0..MaxRetryCount : HandleAuthenticatedUser(r)

SpecSession == Init /\ [][SessionNext]_vars

----------------------------------------------------------------------------
(* Claims about the auth manager *)

Called(name) == name \in Range(result.calls)

\* the keys the specification enumerates: its ten cached keys and the session flag
EnumeratedKeys ==
    {"token", "userData", "userProfile", "transactions", "customCategories",
     "categories", "reminders", "monthlyBudget", "cartItems", "paidRemindersHistory",
     "isAuthenticated"}

\* C2: once logout has returned, whatever the remote sign-out did, every
\* enumerated local-storage key is absent.
C2_LogoutClearsEnumeratedKeys ==
    result.op = "logout" => \A k \in EnumeratedKeys : ~Has(localStorage, k)

\* C3: logout returns success = true on every path (sign-out succeeded,
\* returned an error, threw) and never throws.
C3_LogoutAlwaysSucceeds ==
    result.op = "logout" => result.outcome = "returned" /\ result.success

\* C3 witness: a logout whose remote sign-out threw has returned, with data
\* cached before it
C3_Witness ==
    /\ result.op = "logout" /\ result.backend = "throws" /\ result.error = M_NET
    /\ Has(localStorage, "categories")

\* C4: from the return of logout to the next login or register call the
\* local-storage login check of isLoggedIn is false, whatever events and
\* pending profile handlings are delivered in between.
C4_StaysLoggedOut ==
    loggedOut => ~LocalLoginCheck(localStorage)

\* C5: login with the demo pair returns success = true with a non-empty token
\* and the user whose id is the fixed demo id, in every state of the mock
\* store and of local storage.
C5_DemoLoginSucceeds ==
    (result.op = "login" /\ result.args = <<DEMO_EMAIL, DEMO_PASSWORD>>) =>
        /\ result.outcome = "returned" /\ result.success
        /\ result.token # NoToken
        /\ result.user.id = <<DEMO_ID>>

\* C5 witness: a demo login has succeeded after a mock registration and at a
\* later clock reading than the first
C5_Witness ==
    /\ result.op = "login" /\ result.args = <<DEMO_EMAIL, DEMO_PASSWORD>>
    /\ result.success
    /\ users["ann@example.com"] # <<>>
    /\ clock > T0
    /\ localStorage["userId"] = << <<DEMO_ID>> >>

\* C6: every login invokes exactly one of the mock store and the remote
\* backend: the mock store when the credentials are exactly the demo pair, the
\* backend for every other pair.
C6_ExactlyOneBackend ==
    result.op = "login" =>
        /\ Called("mockAuth.login") # Called("auth.signInWithPassword")
        /\ Called("mockAuth.login") <=> result.args = <<DEMO_EMAIL, DEMO_PASSWORD>>

\* C6 witness: a successful login with the demo email and another password,
\* served by the backend
C6_Witness ==
    /\ result.op = "login" /\ result.success
    /\ result.args = <<DEMO_EMAIL, "longpassword">>
    /\ Called("auth.signInWithPassword")

\* C7: a register call with a password shorter than 8 characters fails with
\* the 'must be at least 8 characters' message and makes no backend call.
C7_ShortPasswordRejectedLocally ==
    (result.op = "register" /\ Len(result.args[3]) < 8) =>
        /\ result.calls = <<>>
        /\ result.outcome = "returned" /\ ~result.success
        /\ result.error = "Password must be at least 8 characters"

AuthOps == {"login", "register", "logout", "getCurrentUser", "isLoggedIn",
            "resendConfirmation"}

\* C8: no exception escapes the auth manager, and a login, register or
\* resendConfirmation whose backend call failed is reported as success = false
\* with an error message.
C8_NoExceptionEscapes ==
    result.op \in AuthOps =>
        /\ result.outcome # "threw"
        /\ ( /\ result.op \in {"login", "register", "resendConfirmation"}
             /\ result.outcome = "returned"
             /\ result.backend \in {"error", "throws"} )
           => (~result.success /\ result.error # UNDEF /\ result.error # "")

\* C8 witness: a register whose last signUp threw a value without a message
\* has returned its failure
C8_Witness ==
    /\ result.op = "register" /\ result.outcome = "returned"
    /\ result.backend = "throws" /\ result.error = M_TYPEERROR
    /\ ~result.success

\* C9: the retry count of a handled sign-in never exceeds 3.
C9_RetryCountBounded ==
    \A r \in pending : r <= RETRY_LIMIT

\* C10: a handling whose lookup reported "not found" (PGRST116) has attempted
\* to create the profile (RPC or direct insert).
C10_MissingProfileIsCreated ==
    (result.op = "handleAuthenticatedUser" /\ result.error = "PGRST116") =>
        (Called("rpc.create_user_profile") \/ Called("user_profiles.insert"))

----------------------------------------------------------------------------
(* Claims about registration *)

\* how often a call list names the backend's signUp
SignUpCalls(calls) == Cardinality({i \in 1..Len(calls) : calls[i] = "auth.signUp"})

\* C11 as stated: register calls the backend signUp at most 3 times in one
\* invocation, whatever the signUp outcomes are.
C11_SignUpAtMostThree ==
    result.op = "register" => SignUpCalls(result.calls) <= 3

\* C11 amended: register calls signUp at most maxRetries + 1 = 4 times in one
\* invocation (one attempt and up to three retries), each delay of the
\* backoff is strictly longer than the one before it, and the loop ends:
\* every pass that does not end it raises the retry count, which never
\* passes maxRetries while the loop runs.
C11_SignUpBounded ==
    /\ result.op = "register" =>
          /\ SignUpCalls(result.calls) <= maxRetries + 1
          /\ \A i \in 1..Len(result.delays) - 1 : result.delays[i] < result.delays[i + 1]
    /\ reg.pc = "signUp" =>
          /\ reg.retryCount <= maxRetries
          /\ SignUpCalls(reg.calls) = reg.retryCount

\* C11 witness: a register has returned after four signUp calls and three
\* delays
C11_Witness ==
    /\ result.op = "register" /\ result.outcome = "returned"
    /\ SignUpCalls(result.calls) = maxRetries + 1
    /\ Len(result.delays) = 3

----------------------------------------------------------------------------
(* Claims about the stored categories and transactions *)

\* C12: no two stored categories have the same type and the same name,
\* after any sequence of getCategories, createCategory, updateCategory and
\* deleteCategory calls.
C12_CategoryPairsUnique ==
    LET categories == ListOf(localStorage, "categories")
    IN  \A i, j \in 1..Len(categories) :
           (categories[i].name = categories[j].name
              /\ categories[i].type = categories[j].type) => i = j

\* C13: every stored transaction references a category that is in the stored
\* category list and has the transaction's type.
C13_TransactionsReferenceCategories ==
    \A t \in Range(ListOf(localStorage, "transactions")) :
       \E c \in Range(ListOf(localStorage, "categories")) :
          c.name = t.category /\ c.type = t.type

----------------------------------------------------------------------------
(* The mock user store on its own *)

MockNext ==
    \/ \E n \in Names, e \in Emails, p \in Passwords : MockRegister(n, e, p)
    \/ \E e \in Emails, p \in Passwords : MockLoginCall(e, p)
    \/ Tick

SpecMock == Init /\ [][MockNext]_vars

\* a failure of the mock store: thrown, without a token, the store unchanged
MockFailed ==
    /\ result'.outcome = "threw" /\ ~result'.success
    /\ result'.token = NoToken
    /\ users' = users

\* C14 as stated: in the mock store, every register with an email that is
\* already stored fails with the 'User already exists' error and leaves the
\* stored record unchanged, and every login with an unknown email or a wrong
\* password fails with the 'Invalid credentials' error; neither issues a token.
C14_MockStoreErrors ==
    [][ /\ \A n \in Names, e \in Emails, p \in Passwords :
             (MockRegister(n, e, p) /\ MockUserExists(users, e)) =>
                 /\ MockFailed
                 /\ result'.error = "User already exists with this email"
        /\ \A e \in Emails, p \in Passwords :
             (MockLoginCall(e, p)
                /\ (~MockUserExists(users, e) \/ users[e][1].password # p)) =>
                 /\ MockFailed
                 /\ result'.error = "Invalid credentials" ]_vars

\* C14 amended: both failures throw, issue no token and leave the store
\* unchanged; the error is the 'User already exists' / 'Invalid credentials'
\* one when the call passes the field validation that precedes the lookup,
\* and the validation's error otherwise.
C14_MockStoreErrorsValidated ==
    [][ /\ \A n \in Names, e \in Emails, p \in Passwords :
             (MockRegister(n, e, p) /\ MockUserExists(users, e)) =>
                 /\ MockFailed
                 /\ result'.error =
                      IF n = "" \/ p = "" THEN "All fields are required"
                      ELSE IF Len(p) < 8 THEN "Password must be at least 8 characters"
                      ELSE "User already exists with this email"
        /\ \A e \in Emails, p \in Passwords :
             (MockLoginCall(e, p)
                /\ (~MockUserExists(users, e) \/ users[e][1].password # p)) =>
                 /\ MockFailed
                 /\ result'.error =
                      IF e = "" \/ p = "" THEN "Email and password are required"
                      ELSE "Invalid credentials" ]_vars

\* C14 witness: a login with the wrong password for a user registered
\* earlier has failed
C14_Witness ==
    /\ result.op = "mockAuth.login" /\ result.outcome = "threw"
    /\ result.args = <<"ann@example.com", DEMO_PASSWORD>>
    /\ result.error = "Invalid credentials"
    /\ users["ann@example.com"] # <<>>

----------------------------------------------------------------------------
(* Claims about the results of register and login *)

\* the step in which a register call returns success = true
RegisterSucceeds ==
    /\ reg.pc = "signUp" /\ reg'.pc = "idle"
    /\ result'.op = "register" /\ result'.success

\* the last signUp of the returned call answered a user and no error: the
\* profile checks that only follow such an answer are the last calls made
LastSignUpGaveUser ==
    /\ SignUpCalls(result'.calls) >= 1
    /\ result'.calls[Len(result'.calls)] = "user_profiles.select"
    /\ result'.backend = "ok"

AlreadyRegistered(out) ==
    /\ out.kind = "error"
    /\ \/ Includes(out.msg, "User already registered")
       \/ Includes(out.msg, "already exists")

\* the call refuses with the message that suggests logging in
Refused ==
    /\ reg'.pc = "idle"
    /\ result'.op = "register" /\ result'.outcome = "returned"
    /\ ~result'.success /\ result'.error = EXISTS_MSG

\* the register call of this step, when the lookup answers an existing profile
ExistingProfileStep ==
    /\ result'.op = "register" /\ Len(result'.args) = 3
    /\ \E caller \in {"direct", "Signup"} :
          RegisterStartWith(result'.args[1], result'.args[2], result'.args[3],
                            caller, "existing")

----------------------------------------------------------------------------
(* The transaction services on their own *)

TxIds == { <<"trans", T0>>, <<"trans", 99>> }
TxUpdates == { [amount |-> 40] }

TransactionsNext ==
    \/ GetTransactions
    \/ \E t \in TxInputs : CreateTransaction(t)
    \/ \E id \in TxIds, t \in TxUpdates : UpdateTransaction(id, t)
    \/ \E id \in TxIds : DeleteTransaction(id)
    \/ Tick

SpecTransactions == Init /\ [][TransactionsNext]_vars

TransactionOps == {"getTransactions", "createTransaction", "updateTransaction",
                   "deleteTransaction"}

StoredTransaction(id) ==
    {t \in Range(ListOf(localStorage, "transactions")) : t._id = id}

\* C18: in mock mode no transaction operation contacts the backend;
\* getTransactions returns the stored list; once updateTransaction has
\* returned, the stored transaction of that id carries the edited fields; once
\* deleteTransaction has returned, no stored transaction has that id.
C18_MockTransactionsLocal ==
    result.op \in TransactionOps =>
        /\ result.calls = <<>>
        /\ result.op = "getTransactions" =>
              result.data = ListOf(localStorage, "transactions")
        /\ result.op = "updateTransaction" =>
              \A t \in StoredTransaction(result.args[1]) :
                 \A f \in DOMAIN result.args[2] : t[f] = result.args[2][f]
        /\ result.op = "deleteTransaction" =>
              StoredTransaction(result.args[1]) = {}

----------------------------------------------------------------------------
(* The aggregation services over the stored lists *)

DateRanges == { << <<2024, 1, 1, 0>>, <<2024, 2, 1, 0>> >>, <<Day1, Day1>> }
Months == { <<2024, 1>>, <<2024, 2>> }
BudgetUpdates == { [budget |-> 0], [budget |-> 3] }
NamedTx == [type |-> "expense", amount |-> 10, category |-> "constructor", date |-> Day1]

AggregateNext ==
    \/ GetCategories
    \/ \E c \in CatInputs : CreateCategory(c)
    \/ \E id \in IdInputs, c \in BudgetUpdates : UpdateCategory(id, c)
    \/ \E t \in TxInputs \cup {NamedTx} : CreateTransaction(t)
    \/ \E ym \in Months : GetMonthlyTransactions(ym[1], ym[2])
    \/ \E r \in DateRanges : GetTransactionsByCategory(r[1], r[2])
    \/ \E r \in DateRanges : GetCategoryStats(r[1], r[2])
    \/ Tick

SpecAggregate == Init /\ [][AggregateNext]_vars

AggregationOps == {"getMonthlyTransactions", "getTransactionsByCategory",
                   "getCategoryStats"}

C20_MonthlyExact ==
    result.op = "getMonthlyTransactions" =>
        LET stored == ListOf(localStorage, "transactions")
            dated(t) == t.date[1] = result.args[1] /\ t.date[2] = result.args[2]
            isIncome(t) == t.type = "income"
            isOther(t) == t.type # "income"
            returned == result.data.transactions
            summary == result.data.summary
        IN  /\ returned = SelectSeq(stored, dated)
            /\ summary.income = Total(SelectSeq(returned, isIncome))
            /\ summary.expense = Total(SelectSeq(returned, isOther))
            /\ summary.balance = summary.income - summary.expense
            /\ stored = <<>> =>
                  (summary.income = 0 /\ summary.expense = 0 /\ summary.balance = 0)

\* the sum of the amounts of the transactions at the indices in S
RECURSIVE AmountOver(_, _)
AmountOver(S, transactions) ==
    IF S = {} THEN 0
    ELSE LET j == CHOOSE k \in S : TRUE
         IN  transactions[j].amount + AmountOver(S \ {j}, transactions)

RECURSIVE CountSum(_)
CountSum(groups) ==
    IF groups = <<>> THEN 0 ELSE Head(groups).count + CountSum(Tail(groups))

\* C22: getTransactionsByCategory returns groups that partition the in-range
\* transactions: every in-range transaction is in exactly one group, the one
\* keyed by its category; a group's count is the number and its total the
\* sum of the amounts of its transactions; the groups come in non-increasing
\* order of total.
C22_GroupsPartition ==
    result.op = "getTransactionsByCategory" =>
        /\ result.outcome = "returned"
        /\ LET transactions == ListOf(localStorage, "transactions")
               inRange == {j \in 1..Len(transactions) :
                             InRange(transactions[j].date, result.args[1],
                                     result.args[2])}
               groups == result.data
           IN  /\ \A j \in inRange :
                     \E i \in 1..Len(groups) :
                        /\ groups[i]._id = transactions[j].category
                        /\ transactions[j] \in Range(groups[i].transactions)
                        /\ \A k \in 1..Len(groups) :
                              transactions[j] \in Range(groups[k].transactions) => k = i
               /\ CountSum(groups) = Cardinality(inRange)
               /\ \A i \in 1..Len(groups) :
                     /\ groups[i].count = Len(groups[i].transactions)
                     /\ groups[i].total =
                          AmountOver(DOMAIN groups[i].transactions, groups[i].transactions)
                     /\ \A t \in Range(groups[i].transactions) : t.category = groups[i]._id
               /\ \A i \in 1..Len(groups) - 1 : groups[i].total >= groups[i + 1].total

----------------------------------------------------------------------------
(* The expense-history popup (ExpenseHistoryAlternativeView)               *)
(*                                                                         *)
(* In the specification of the popup, page holds the mounted component:    *)
(* its props isOpen, monthlyData (the list of monthly totals) and          *)
(* transactions (each with its category and the getMonth() of its date),   *)
(* and its state activeTab, selectedMonth, selectedCategory, currentPage.  *)
(* null is <<>>, a selected value v is <<v>>.                              *)

NULL == <<>>
transactionsPerPage == 5

\* new Date().getMonth() while the popup is mounted
NowMonth == 6

\* the categories that the getCategorySpending prop offers for every month
CategorySpending == {"Food", "Rent"}

\* the component right after mounting
HistoryView(isOpen, monthlyData, transactions) ==
    [isOpen |-> isOpen, monthlyData |-> monthlyData, transactions |-> transactions,
     activeTab |-> "trends", selectedMonth |-> NULL, selectedCategory |-> NULL,
     currentPage |-> 1]

\* Number.prototype.toFixed(1) of the non-negative num / den, in tenths: the
\* nearest tenth, the larger one when two are equally near
ToFixed1Truncating(num, den) == (10 * num) \div den
ToFixed1(num, den) == (20 * num + den) \div (2 * den)

Abs(n) == IF n >= 0 THEN n ELSE 0 - n

\* getMonthlyChanges: value is in tenths (the number 0 for the first month,
\* the toFixed(1) text for the later ones)
GetMonthlyChanges(sixMonthsData) ==
    [index \in 1..Len(sixMonthsData) |->
        IF index = 1
        THEN [value |-> 0, isIncrease |-> FALSE]
        ELSE LET prevMonth == sixMonthsData[index - 1]
                 currentMonth == sixMonthsData[index]
             IN  IF prevMonth > 0
                 THEN [value |-> ToFixed1(Abs(currentMonth - prevMonth) * 100, prevMonth),
                       isIncrease |-> currentMonth - prevMonth >= 0]
                 ELSE [value |-> 0, isIncrease |-> TRUE]]

\* getCategoryTransactions
GetCategoryTransactions(view, monthIndex, category) ==
    SelectSeq(view.transactions,
              LAMBDA t : /\ ToLowerCase(t.category) = ToLowerCase(category)
                         /\ t.month = NowMonth - (5 - monthIndex))

\* renderTransactionDetails gets as far as the transaction table
ShowsTable(view) ==
    /\ view.isOpen
    /\ view.activeTab = "details"
    /\ view.selectedMonth # NULL
    /\ view.selectedCategory # NULL
    /\ Len(GetCategoryTransactions(view, view.selectedMonth[1],
                                   view.selectedCategory[1])) > 0

\* Math.ceil(allTransactions.length / transactionsPerPage)
TotalPages(view) ==
    (Len(GetCategoryTransactions(view, view.selectedMonth[1], view.selectedCategory[1]))
       + transactionsPerPage - 1) \div transactionsPerPage

Max(a, b) == IF a >= b THEN a ELSE b
Min(a, b) == IF a <= b THEN a ELSE b

\* the number on the i-th page button
PageNum(i, currentPage, totalPages) ==
    IF totalPages <= 5 THEN i + 1
    ELSE IF currentPage <= 3 THEN (IF i = 4 THEN totalPages ELSE i + 1)
    ELSE IF currentPage >= totalPages - 2 THEN (IF i = 0 THEN 1 ELSE totalPages - 4 + i)
    ELSE (IF i = 4 THEN totalPages ELSE IF i = 0 THEN 1 ELSE currentPage - 2 + i)

\* the effect on [selectedCategory, selectedMonth], run after a render in which
\* one of them changed
SelectionEffect(old, new) ==
    IF /\ (new.selectedCategory # old.selectedCategory
             \/ new.selectedMonth # old.selectedMonth)
       /\ new.selectedCategory # NULL
       /\ new.selectedMonth # NULL
    THEN [new EXCEPT !.currentPage = 1]
    ELSE new

historyVars == <<localStorage, sessionStorage, users, clock, pending, reg, loggedOut>>

\* the parent opens the popup: the effect on [isOpen] resets tab and selections
Open ==
    /\ ~page.isOpen
    /\ page' = SelectionEffect(page,
                   [page EXCEPT !.isOpen = TRUE, !.activeTab = "trends",
                                !.selectedMonth = NULL, !.selectedCategory = NULL])
    /\ UNCHANGED <<historyVars, result>>

\* onClose: the parent closes the popup, which then renders nothing
Close ==
    /\ page.isOpen
    /\ page' = [page EXCEPT !.isOpen = FALSE]
    /\ UNCHANGED <<historyVars, result>>

\* the parent passes another transactions list
TransactionsChange(transactions) ==
    /\ transactions # page.transactions
    /\ page' = [page EXCEPT !.transactions = transactions]
    /\ UNCHANGED <<historyVars, result>>

\* a tab button (or "Go to Categories" / the back button of the details view)
SetActiveTab(tab) ==
    /\ page.isOpen
    /\ page' = [page EXCEPT !.activeTab = tab]
    /\ UNCHANGED <<historyVars, result>>

\* a click on a point of the trend chart, or on a month button of the
\* categories tab
SelectMonth(index) ==
    /\ page.isOpen
    /\ page.activeTab \in {"trends", "categories"}
    /\ index \in 0..Len(page.monthlyData) - 1
    /\ page' = SelectionEffect(page, [page EXCEPT !.selectedMonth = <<index>>])
    /\ UNCHANGED <<historyVars, result>>

\* a click on a category card of the categories tab
SelectCategory(category) ==
    /\ page.isOpen
    /\ page.activeTab = "categories"
    /\ page.selectedMonth # NULL
    /\ category \in CategorySpending
    /\ page' = SelectionEffect(page, [page EXCEPT !.selectedCategory = <<category>>,
                                                  !.activeTab = "details"])
    /\ UNCHANGED <<historyVars, result>>

\* the pagination controls, rendered when totalPages > 1
PrevPage ==
    /\ ShowsTable(page)
    /\ TotalPages(page) > 1
    /\ page.currentPage # 1
    /\ page' = [page EXCEPT !.currentPage = Max(page.currentPage - 1, 1)]
    /\ UNCHANGED <<historyVars, result>>

NextPage ==
    /\ ShowsTable(page)
    /\ TotalPages(page) > 1
    /\ page.currentPage # TotalPages(page)
    /\ page' = [page EXCEPT !.currentPage = Min(page.currentPage + 1, TotalPages(page))]
    /\ UNCHANGED <<historyVars, result>>

PageButton(i) ==
    /\ ShowsTable(page)
    /\ TotalPages(page) > 1
    /\ i \in 0..Min(TotalPages(page), 5) - 1
    /\ page' = [page EXCEPT !.currentPage = PageNum(i, page.currentPage, TotalPages(page))]
    /\ UNCHANGED <<historyVars, result>>

\* the trends tab is rendered: getTrendData calls getMonthlyChanges
RenderTrends ==
    /\ page.isOpen
    /\ page.activeTab = "trends"
    /\ result' = [Res("getMonthlyChanges", TRUE, UNDEF)
                    EXCEPT !.data = GetMonthlyChanges(page.monthlyData),
                           !.args = <<page.monthlyData>>]
    /\ UNCHANGED <<historyVars, page>>

\* the props the popup is mounted with
MaxMonths == 3
Totals == {0 - 2, 0, 3, 4}
MonthlyInputs ==
    UNION {[1..n -> Totals] : n \in 0..MaxMonths}

Tx(n, category, month) ==
    [i \in 1..n |-> [id |-> i, category |-> category, month |-> month]]

TransactionInputs ==
    {<<>>, Tx(3, "food", 2), Tx(6, "food", 2), Tx(11, "food", 2)}

HistoryInit ==
    /\ localStorage = [k \in Keys |-> <<>>]
    /\ sessionStorage = [k \in SessionKeys |-> <<>>]
    /\ users = SeedUsers
    /\ clock = T0
    /\ result = NoResult
    /\ pending = {}
    /\ reg = Idle
    /\ loggedOut = FALSE
    /\ page \in {HistoryView(isOpen, monthlyData, transactions) :
                   isOpen \in BOOLEAN, monthlyData \in MonthlyInputs,
                   transactions \in TransactionInputs}

HistoryNext ==
    \/ Open
    \/ Close
    \/ \E transactions \in TransactionInputs : TransactionsChange(transactions)
    \/ \E tab \in {"trends", "categories", "details"} : SetActiveTab(tab)
    \/ \E index \in 0..MaxMonths - 1 : SelectMonth(index)
    \/ \E category \in CategorySpending : SelectCategory(category)
    \/ PrevPage
    \/ NextPage
    \/ \E i \in 0..4 : PageButton(i)
    \/ RenderTrends

SpecHistory == HistoryInit /\ [][HistoryNext]_vars

\* C23 as stated: getMonthlyChanges returns one entry per month, the first
\* being {value 0, not an increase}; for a later month the change is 0 when
\* the previous total is 0 and otherwise is exactly
\* |current - previous| * 100 / previous, and isIncrease is true exactly when
\* current >= previous or the previous total is 0.
C23_MonthlyChangesExact ==
    result.op = "getMonthlyChanges" =>
        LET totals == result.args[1]
            changes == result.data
        IN  /\ Len(changes) = Len(totals)
            /\ Len(changes) >= 1 => changes[1] = [value |-> 0, isIncrease |-> FALSE]
            /\ \A i \in 2..Len(changes) :
                  /\ totals[i - 1] = 0 => changes[i].value = 0
                  /\ totals[i - 1] # 0 =>
                        changes[i].value * totals[i - 1]
                            = 10 * Abs(totals[i] - totals[i - 1]) * 100
                  /\ changes[i].isIncrease
                        <=> (totals[i] >= totals[i - 1] \/ totals[i - 1] = 0)

\* C23 amended: getMonthlyChanges returns one entry per month, the first
\* being {value 0, not an increase}; for a later month whose previous total
\* is not positive the change is 0 and counts as an increase; otherwise the
\* value is |current - previous| * 100 / previous rounded to one decimal
\* (at most half a tenth away from it) and isIncrease is true exactly when
\* current >= previous.
C23_MonthlyChangesRounded ==
    result.op = "getMonthlyChanges" =>
        LET totals == result.args[1]
            changes == result.data
        IN  /\ Len(changes) = Len(totals)
            /\ Len(changes) >= 1 => changes[1] = [value |-> 0, isIncrease |-> FALSE]
            /\ \A i \in 2..Len(changes) :
                  IF totals[i - 1] <= 0
                  THEN changes[i] = [value |-> 0, isIncrease |-> TRUE]
                  ELSE /\ changes[i].value >= 0
                       /\ 2 * Abs(changes[i].value * totals[i - 1]
                                    - 1000 * Abs(totals[i] - totals[i - 1]))
                             <= totals[i - 1]
                       /\ changes[i].isIncrease <=> totals[i] >= totals[i - 1]

\* a month of total 4 after a month of total 3 (33.33... per cent), and a
\* month after a month of total 0
C23_Witness ==
    /\ result.op = "getMonthlyChanges"
    /\ Len(result.data) = 3
    /\ result.args[1] = <<0, 3, 4>>
    /\ result.data[3].value = 333

\* C28: whenever the details view shows a transaction table, the current page
\* is within range: 1 <= currentPage <= totalPages.
C28_PageWithinRange ==
    ShowsTable(page) =>
        /\ 1 <= page.currentPage
        /\ page.currentPage <= TotalPages(page)

----------------------------------------------------------------------------
(* Claims about the mock data store *)

\* C24: no two stored transactions share an _id and no two stored categories
\* share an _id, also when two creations read the same Date.now().
C24_IdsUnique ==
    LET transactions == ListOf(localStorage, "transactions")
        categories == ListOf(localStorage, "categories")
    IN  /\ \A i, j \in 1..Len(transactions) :
              transactions[i]._id = transactions[j]._id => i = j
        /\ \A i, j \in 1..Len(categories) :
              categories[i]._id = categories[j]._id => i = j

StoredCategoryIds(ls) ==
    {ListOf(ls, "categories")[i]._id : i \in 1..Len(ListOf(ls, "categories"))}

NameTaken(ls, category) ==
    \E i \in 1..Len(ListOf(ls, "categories")) :
        /\ ToLowerCase(ListOf(ls, "categories")[i].name) = ToLowerCase(category.name)
        /\ ListOf(ls, "categories")[i].type = category.type

FailedUntouched ==
    /\ result'.success = FALSE
    /\ localStorage'["categories"] = localStorage["categories"]
    /\ localStorage'["transactions"] = localStorage["transactions"]

\* C25: updateCategory or deleteCategory with an id that is not in the stored
\* list, and createCategory with a name that an existing category of the same
\* type has up to letter case, return success = false and leave the
\* 'categories' and the 'transactions' lists as they were.
C25_FailedCategoryOps ==
    [][ /\ \A id \in IdInputs, c \in CatUpdates :
              (UpdateCategory(id, c) /\ id \notin StoredCategoryIds(localStorage))
                  => FailedUntouched
        /\ \A id \in IdInputs :
              (DeleteCategory(id) /\ id \notin StoredCategoryIds(localStorage))
                  => FailedUntouched
        /\ \A c \in CatInputs :
              (CreateCategory(c) /\ NameTaken(localStorage, c)) => FailedUntouched
      ]_vars

\* createCategory was refused for a name that is taken up to letter case while
\* transactions are stored
C25_Witness ==
    /\ result.op = "createCategory"
    /\ ~result.success
    /\ Len(ListOf(localStorage, "transactions")) > 0
    /\ \E c \in CatInputs :
          /\ NameTaken(localStorage, c)
          /\ \A i \in 1..Len(ListOf(localStorage, "categories")) :
                ListOf(localStorage, "categories")[i].name # c.name

----------------------------------------------------------------------------
(* profileAPI.updateProfile, mock mode *)

\* the fields of a stored profile; a field that is absent (or null) is UNDEF
ProfileFields == {"name", "email", "profileImage", "dateOfBirth", "panId"}
EmptyProfile == [f \in ProfileFields |-> UNDEF]

\* { ...baseProfile, ...profileData }
Spread(baseProfile, profileData) ==
    [f \in ProfileFields |->
        IF profileData[f] # UNDEF THEN profileData[f] ELSE baseProfile[f]]

\* profileAPI.updateProfile(profileData)
UpdateProfile(profileData) ==
    /\ USE_MOCK_AUTH
    /\ LET hasUserData == Has(localStorage, "userData")
           baseProfile ==
               IF Has(localStorage, "userProfile") THEN localStorage["userProfile"][1]
               ELSE IF hasUserData
               THEN [EmptyProfile EXCEPT !.email = localStorage["userData"][1].email]
               ELSE EmptyProfile
           updatedProfile == Spread(baseProfile, profileData)
           ls1 == SetItem(localStorage, "userProfile", updatedProfile)
       IN  /\ localStorage' =
                 IF hasUserData /\ profileData.name # UNDEF /\ profileData.name # ""
                 THEN SetItem(ls1, "userData",
                              [localStorage["userData"][1]
                                 EXCEPT !.name = profileData.name,
                                        !.full_name = profileData.name])
                 ELSE ls1
           /\ result' = [Res("updateProfile", TRUE, UNDEF) EXCEPT !.data = updatedProfile,
                                                                  !.args = <<profileData>>]
    /\ UNCHANGED <<sessionVars, clock>>

ProfileInputs ==
    { [EmptyProfile EXCEPT !.name = "Bob"],
      [EmptyProfile EXCEPT !.name = ""],
      [EmptyProfile EXCEPT !.dateOfBirth = "1990-01-01"],
      [EmptyProfile EXCEPT !.name = "Ann", !.panId = "ABCDE1234F"] }

ProfileNext ==
    \/ \E e \in Emails, p \in Passwords : Login(e, p)
    \/ \E profileData \in ProfileInputs : UpdateProfile(profileData)
    \/ Tick

SpecProfile == Init /\ [][ProfileNext]_vars

\* C26: after any sequence of login and updateProfile calls, the name stored
\* in 'userData' equals the name stored in 'userProfile'.
C26_NamesInSync ==
    (Has(localStorage, "userData") /\ Has(localStorage, "userProfile")) =>
        localStorage["userData"][1].name = localStorage["userProfile"][1].name

----------------------------------------------------------------------------
(* The Login page *)

\* the six removeItem calls of both handlers after a successful login
ClearStaleDataAndToken(ls) == RemoveAll(ls, staleKeys \o <<"token">>)
ClearStaleData(ls) == RemoveAll(ls, staleKeys)

\* the body shared by handleSubmit and handleDemoLogin: loading is set, login is
\* awaited, and the finally block clears loading. authService.login catches
\* whatever its calls throw, so the handlers' catch blocks are never entered.
LoginHandler(op, email, password, fallback) ==
    /\ reg.pc = "idle"
    /\ ~page.navigated
    /\ \E signIn \in SignInOutcomes(email), prof \in ProfileOutcomes :
          LET out == LoginOutcome(localStorage, users, clock, email, password, signIn, prof)
          IN  /\ (signIn.kind = "ok" /\ signIn.session) \/ prof.kind = "throws"
              /\ result' = [out.res EXCEPT !.op = op, !.args = <<email, password>>]
              /\ IF out.res.success
                 THEN /\ localStorage' = ClearStaleData(out.ls)
                      /\ page' = [page EXCEPT !.error = "", !.loading = FALSE,
                                              !.navigated = TRUE]
                 ELSE /\ localStorage' = out.ls
                      /\ page' = [page EXCEPT !.error = Or(out.res.error, fallback),
                                              !.loading = FALSE]
    /\ loggedOut' = FALSE
    /\ UNCHANGED <<sessionStorage, users, clock, pending, reg>>

\* Login.handleSubmit
LoginSubmit(formData) ==
    LoginHandler("Login.handleSubmit", formData.email, formData.password,
                 "Login failed: Invalid response from server")

\* Login.handleDemoLogin
DemoLogin ==
    LoginHandler("Login.handleDemoLogin", DEMO_EMAIL, DEMO_PASSWORD,
                 "Demo login failed: Invalid response from server")

\* the Login page is mounted again
OpenLoginPage ==
    /\ page.navigated
    /\ page' = NoPage
    /\ UNCHANGED <<localStorage, sessionStorage, users, clock, result, pending, reg,
                   loggedOut>>

LoginForms ==
    { [email |-> DEMO_EMAIL, password |-> "secret7"],
      [email |-> "ann@example.com", password |-> "secret7"],
      [email |-> "", password |-> ""] }

LoginPageNext ==
    \/ \E formData \in LoginForms : LoginSubmit(formData)
    \/ DemoLogin
    \/ OpenLoginPage
    \/ \E k \in CacheKeys : CacheWrite(k)
    \/ CreateTransaction(NamedTx)

SpecLoginPage == Init /\ [][LoginPageNext]_vars

\* a step of one of the two handlers (they run only while the page is mounted,
\* and every other operation leaves its own name in result.op)
LoginPageStep ==
    /\ ~page.navigated
    /\ result'.op \in {"Login.handleSubmit", "Login.handleDemoLogin"}

\* C27: a successful submit or demo login ends with the six stale data keys
\* absent, 'token' and 'userData' present, and navigation to the dashboard; a
\* failed login removes no local-storage key and does not navigate; on every
\* path loading is false when the handler ends.
C27_LoginPageCleanup ==
    [][ LoginPageStep =>
          /\ ~page'.loading
          /\ IF result'.success
             THEN /\ \A i \in 1..Len(staleKeys) : ~Has(localStorage', staleKeys[i])
                  /\ Has(localStorage', "token")
                  /\ Has(localStorage', "userData")
                  /\ localStorage'["token"] = <<result'.token>>
                  /\ page'.navigated
             ELSE /\ \A k \in Keys : Has(localStorage, k) => Has(localStorage', k)
                  /\ ~page'.navigated
      ]_vars

\* a login from the page has succeeded after all six keys held data
C27_Witness ==
    /\ result.op \in {"Login.handleSubmit", "Login.handleDemoLogin"}
    /\ result.success
    /\ page.navigated
    /\ \A i \in 1..Len(staleKeys) : ~Has(localStorage, staleKeys[i])
    /\ localStorage["token"] = <<result.token>>
    /\ localStorage["userData"] = <<result.user>>

----------------------------------------------------------------------------
(* The mock store together with authService.login *)

MockLoginNext ==
    \/ \E n \in Names, e \in Emails, p \in Passwords : MockRegister(n, e, p)
    \/ \E e \in Emails, p \in Passwords : MockLoginCall(e, p)
    \/ \E e \in Emails, p \in Passwords : Login(e, p)
    \/ Tick

SpecMockLogin == Init /\ [][MockLoginNext]_vars

\* C29: the user object returned by every successful mockAuth.register or
\* mockAuth.login has no password field, and neither have the 'userData' and
\* 'userProfile' values in local storage.
C29_NoPasswordHandedOut ==
    /\ (result.op \in {"mockAuth.register", "mockAuth.login"} /\ result.success)
          => "password" \notin DOMAIN result.data
    /\ Has(localStorage, "userData")
          => "password" \notin DOMAIN localStorage["userData"][1]
    /\ Has(localStorage, "userProfile")
          => "password" \notin DOMAIN localStorage["userProfile"][1]

\* a registered user has logged in to the mock store, which holds the password,
\* after a demo login wrote the snapshot
C29_Witness ==
    /\ result.op = "mockAuth.login"
    /\ result.success
    /\ result.data.email = "ann@example.com"
    /\ users["ann@example.com"][1].password = "longpassword"
    /\ Has(localStorage, "userData")
    /\ localStorage["userData"][1].email = DEMO_EMAIL

----------------------------------------------------------------------------
(* Claims about the auth state listener *)

SignedOutStep == \E session \in BOOLEAN : AuthStateChange("SIGNED_OUT", session)

\* C30: a TOKEN_REFRESHED event changes only the key 'token' (set to the new
\* access token) and leaves every other key as it was; a SIGNED_OUT event
\* removes exactly the keys that logout's local cleanup removes, and the
\* cleanup applied again changes nothing.
C30_RefreshAndSignOut ==
    [][ /\ \A session \in BOOLEAN :
              AuthStateChange("TOKEN_REFRESHED", session) =>
                  /\ \A k \in Keys \ {"token"} : localStorage'[k] = localStorage[k]
                  /\ localStorage'["token"] =
                        IF session THEN <<REFRESHED_TOKEN>> ELSE localStorage["token"]
        /\ (SignedOutStep \/ Logout) =>
              /\ \A k \in Keys :
                    localStorage'[k] = IF \E i \in 1..Len(keysToRemove) : keysToRemove[i] = k
                                       THEN <<>> ELSE localStorage[k]
              /\ sessionStorage' = ClearedSession
              /\ clearLocalStorageOnly(localStorage') = localStorage'
      ]_vars

\* the token was refreshed while the snapshot and the flags of a login were
\* stored
C30_Witness ==
    /\ result.op = "onAuthStateChange"
    /\ result.args = <<"TOKEN_REFRESHED">>
    /\ localStorage["token"] = <<REFRESHED_TOKEN>>
    /\ Has(localStorage, "userData")
    /\ Has(localStorage, "userId")

----------------------------------------------------------------------------
(* The category operations, and the aggregations, over fewer inputs *)

CategoriesNext ==
    \/ GetCategories
    \/ \E c \in CatInputs : CreateCategory(c)
    \/ \E id \in IdInputs, c \in CatUpdates : UpdateCategory(id, c)
    \/ \E id \in IdInputs : DeleteCategory(id)
    \/ CreateTransaction(SampleTx)

SpecCategories == Init /\ [][CategoriesNext]_vars

StatsTx ==
    { [type |-> "expense", amount |-> 10, category |-> "Food", date |-> Day1],
      [type |-> "income",  amount |-> 25, category |-> "Food", date |-> Day2] }

StatsNext ==
    \/ GetCategories
    \/ CreateCategory([name |-> "Rent", type |-> "expense", budget |-> NoBudget])
    \/ \E id \in IdInputs, c \in BudgetUpdates : UpdateCategory(id, c)
    \/ \E t \in StatsTx : CreateTransaction(t)
    \/ \E ym \in Months : GetMonthlyTransactions(ym[1], ym[2])
    \/ \E r \in DateRanges : GetTransactionsByCategory(r[1], r[2])
    \/ \E r \in DateRanges : GetCategoryStats(r[1], r[2])
    \/ Tick

SpecStats == Init /\ [][StatsNext]_vars

====
